---------------------------- MODULE Spec2Model ----------------------------
(***************************************************************************)
(* The two follower/following scrapers of the repository:                  *)
(*   "class"  - class TikTokScraper and its main()   (src/unnamed/part_000) *)
(*   "script" - scrapeFollowers() and its login()    (src/src/index.ts)     *)
(* The live page is the environment: it decides what every page operation  *)
(* returns.  A string is a sequence of one-character strings, so that the  *)
(* string conversions of the code are computed, not assumed.               *)
(***************************************************************************)
EXTENDS Integers, Sequences, FiniteSets, TLC

---------------------------------------------------------------------------
(* Strings *)

TikTokOrigin == <<"h","t","t","p","s",":","/","/","w","w","w",".","t","i","k","t","o","k",".","c","o","m">>

MobileOrigin == <<"h","t","t","p","s",":","/","/","m",".","t","i","k","t","o","k",".","c","o","m">>

\* the characters of the class [a-zA-Z0-9._] that occur in the modelled strings
NameChars == {"a","b","c","e","h","i","k","l","m","o","p","s","t","w","A",".","_"}

\* String.prototype.indexOf: the first position of sep in s, 0 when absent
IndexOf(s, sep) ==
    LET hits == { i \in 1..(Len(s) - Len(sep) + 1) : SubSeq(s, i, i + Len(sep) - 1) = sep }
    IN  IF hits = {} THEN 0 ELSE CHOOSE i \in hits : \A j \in hits : i <= j

RECURSIVE Split(_, _)
\* String.prototype.split with a non-empty separator
Split(s, sep) ==
    LET i == IndexOf(s, sep)
    IN  IF i = 0 THEN <<s>>
        ELSE <<SubSeq(s, 1, i - 1)>> \o Split(SubSeq(s, i + Len(sep), Len(s)), sep)

RECURSIVE TrimStart(_)
TrimStart(s) == IF s # <<>> /\ Head(s) = " " THEN TrimStart(Tail(s)) ELSE s

RECURSIVE TrimEnd(_)
TrimEnd(s) == IF s # <<>> /\ s[Len(s)] = " " THEN TrimEnd(SubSeq(s, 1, Len(s) - 1)) ELSE s

\* String.prototype.trim
Trim(s) == TrimEnd(TrimStart(s))

\* s.replace('@', ''): the first '@' removed
ReplaceAt(s) ==
    LET i == IndexOf(s, <<"@">>)
    IN  IF i = 0 THEN s ELSE SubSeq(s, 1, i - 1) \o SubSeq(s, i + 1, Len(s))

RECURSIVE NameRun(_)
\* the longest prefix of s made of name characters
NameRun(s) == IF s # <<>> /\ Head(s) \in NameChars THEN <<Head(s)>> \o NameRun(Tail(s)) ELSE <<>>

\* allText.match(/@([a-zA-Z0-9._]+)/): group 1 of the leftmost match, <<>> when none
MatchAtName(s) ==
    LET hits == { i \in 1..(Len(s) - 1) : s[i] = "@" /\ s[i + 1] \in NameChars }
    IN  IF hits = {} THEN <<>>
        ELSE LET i == CHOOSE k \in hits : \A j \in hits : k <= j
             IN  NameRun(SubSeq(s, i + 1, Len(s)))

---------------------------------------------------------------------------
(* The document: the elements the page shows *)

None == <<>>

Some(s) == <<s>>

\* An element of the list page.
\*   sel       the container candidate it matches (0: none)
\*   ownHref   its own href when it is an <a>
\*   linkHref  the href of its first descendant <a>
\*   userText  textContent of its username sub-element (None: no such sub-element)
\*   nickText  textContent of its nickname sub-element
\*   allText   the joined innerText of its descendants
\*   linkText  trimmed-to-be text of the link's span (or of the link)
CardAlice ==
    [sel |-> 1, ownHref |-> None, linkHref |-> Some(TikTokOrigin \o <<"/","@","a">>),
     userText |-> Some(<<" ","@","a"," ">>), nickText |-> Some(<<"A","l">>),
     allText |-> <<"A","l"," ","@","a">>, linkText |-> <<"A","l">>]

CardBare ==
    [sel |-> 1, ownHref |-> None, linkHref |-> Some(MobileOrigin \o <<"/","@","a">>),
     userText |-> None, nickText |-> None,
     allText |-> <<"@","a">>, linkText |-> <<>>]

LinkBob ==
    [sel |-> 2, ownHref |-> Some(TikTokOrigin \o <<"/","@","b">>), linkHref |-> None,
     userText |-> None, nickText |-> None,
     allText |-> <<"@","b">>, linkText |-> <<" ","b">>]

Nodes == {CardAlice, CardBare, LinkBob}

\* the most elements a document shows at once
MaxVisible == 2

RECURSIVE SeqsOf(_, _)
\* the sequences of at most n members of S
SeqsOf(S, n) ==
    IF n = 0 THEN {<<>>}
    ELSE {<<>>} \cup { <<x>> \o t : x \in S, t \in SeqsOf(S, n - 1) }

Distinct(d) == \A i, j \in 1..Len(d) : i # j => d[i] # d[j]

Doms == { d \in SeqsOf(Nodes, MaxVisible) : Distinct(d) }

\* the heights document.body.scrollHeight reports for a rendered page
Heights == {100, 200}

RECURSIVE Matching(_, _)
\* the elements of d that match container candidate k, in document order
Matching(d, k) ==
    IF d = <<>> THEN <<>>
    ELSE (IF Head(d).sel = k THEN <<Head(d)>> ELSE <<>>) \o Matching(Tail(d), k)

HasAt(h) == h # None /\ IndexOf(h[1], <<"@">>) # 0

\* the descendant link of an element, seen as an element of its own
InnerLink(n) ==
    [sel |-> 0, ownHref |-> n.linkHref, linkHref |-> None, userText |-> None,
     nickText |-> None, allText |-> <<>>, linkText |-> n.linkText]

RECURSIVE UserLinks(_)
\* document.querySelectorAll('a[href*="@"]'), in document order
UserLinks(d) ==
    IF d = <<>> THEN <<>>
    ELSE (IF HasAt(Head(d).ownHref) THEN <<Head(d)>> ELSE <<>>)
         \o (IF HasAt(Head(d).linkHref) THEN <<InnerLink(Head(d))>> ELSE <<>>)
         \o UserLinks(Tail(d))

\* page.$$(selector): candidate 0 is the generic 'a[href*="@"]'
QueryAll(d, k) == IF k = 0 THEN UserLinks(d) ELSE Matching(d, k)

Usernames(acc) == { acc[i].username : i \in 1..Len(acc) }

---------------------------------------------------------------------------
(* Extraction: class scraper *)

\* the record the in-page map builds from one user card
ClassRecord(item) ==
    LET href     == IF item.linkHref = None THEN <<>> ELSE item.linkHref[1]
        parts    == Split(href, <<"/","@">>)
        username == IF Len(parts) >= 2 THEN parts[2] ELSE <<>>
    IN  [username |-> username, profileUrl |-> href]

\* mutant: the push without the membership test
ClassPushAlways(acc, user) == Append(acc, user)

\* if (!following.some(f => f.username === user.username)) following.push(user)
ClassPush(acc, user) ==
    IF user.username \in Usernames(acc) THEN acc ELSE Append(acc, user)

RECURSIVE ClassMerge(_, _)
\* the for loop over newFollowing
ClassMerge(acc, items) ==
    IF items = <<>> THEN acc
    ELSE ClassMerge(ClassPush(acc, ClassRecord(Head(items))), Tail(items))

---------------------------------------------------------------------------
(* Extraction: script scraper *)

\* username, nickname and profileUrl of one follower element
ScriptRecord(element) ==
    LET username   == IF element.userText # None
                      THEN ReplaceAt(Trim(element.userText[1]))
                      ELSE MatchAtName(element.allText)
        nickname   == IF element.nickText # None
                      THEN Trim(element.nickText[1])
                      ELSE username
        profileUrl == IF element.linkHref # None THEN element.linkHref[1]
                      ELSE IF username # <<>> THEN TikTokOrigin \o <<"/","@">> \o username
                      ELSE <<>>
    IN  [username |-> username, nickname |-> nickname, profileUrl |-> profileUrl]

\* mutant: a record whose username is stored replaces the stored one
ScriptPushOverwrite(acc, rec) ==
    IF rec.username = <<>> THEN acc
    ELSE IF rec.username \in Usernames(acc)
    THEN [i \in 1..Len(acc) |-> IF acc[i].username = rec.username THEN rec ELSE acc[i]]
    ELSE Append(acc, rec)

\* if (username && !followers.some(f => f.username === username)) followers.push(...)
ScriptPush(acc, rec) ==
    IF rec.username # <<>> /\ rec.username \notin Usernames(acc) THEN Append(acc, rec) ELSE acc

RECURSIVE ScriptMerge(_, _)
\* the for loop over followerElements
ScriptMerge(acc, elements) ==
    IF elements = <<>> THEN acc
    ELSE ScriptMerge(ScriptPush(acc, ScriptRecord(Head(elements))), Tail(elements))

\* the record the link fallback builds from one a[href*="@"]
LinkRecord(link) ==
    LET href     == link.ownHref[1]
        parts    == Split(href, <<"@">>)
        username == IF Len(parts) >= 2 THEN Split(parts[2], <<"/">>)[1] ELSE <<>>
        nickname == Trim(link.linkText)
    IN  [username |-> username,
         nickname |-> IF nickname # <<>> THEN nickname ELSE username,
         profileUrl |-> href]

RECURSIVE LinkMerge(_, _)
\* the for loop over userLinks
LinkMerge(acc, links) ==
    IF links = <<>> THEN acc
    ELSE LinkMerge(ScriptPush(acc, LinkRecord(Head(links))), Tail(links))

\* mutant: every round collects into a fresh list
ScriptHarvestFresh(acc, d, selector, round) == ScriptMerge(<<>>, QueryAll(d, selector))

\* one round's harvest: the link fallback when nothing matched after the
\* first round, then the loop over the matched elements
ScriptHarvestResult(acc, d, selector, round) ==
    LET followerElements == QueryAll(d, selector)
        afterLinks == IF Len(followerElements) = 0 /\ round > 0
                      THEN LinkMerge(acc, UserLinks(d))
                      ELSE acc
    IN  ScriptMerge(afterLinks, followerElements)

\* s without its element number i
Without(s, i) == SubSeq(s, 1, i - 1) \o SubSeq(s, i + 1, Len(s))

\* one round's harvest when the loop body throws at element number bad: the
\* catch skips that element, the others are processed
ScriptHarvestSkipping(acc, d, selector, round, bad) ==
    LET followerElements == QueryAll(d, selector)
        afterLinks == IF Len(followerElements) = 0 /\ round > 0
                      THEN LinkMerge(acc, UserLinks(d))
                      ELSE acc
    IN  ScriptMerge(afterLinks, Without(followerElements, bad))

---------------------------------------------------------------------------
(* Program constants *)

\* while (attempts < 20 && ...)
MaxAttempts == 20

\* while (... && noNewFollowingCount < 3)
StagnationThreshold == 3

\* const maxScrollAttempts = 50
maxScrollAttempts == 50

\* handleCaptcha: waitForFunction(..., { timeout: 60000 })
CaptchaTimeoutMs == 60000

\* the container candidates tried in order: [data-e2e="user-card"], .user-card
ClassCandidates == <<1, 2>>

\* possibleSelectors, by position
possibleSelectors == <<1, 2, 3, 4, 5>>

\* how long the CAPTCHA marker stays on the page, or the operator takes, in ms
MarkerDurations == {30000, 61000}

\* the popups handlePopups knows, by position: the recharge offer, the follow requests
PopupDescriptors == <<1, 2>>

\* followingSelectors, by position
followingSelectors == <<1, 2, 3, 4, 5, 6, 7, 8>>

\* the first followingSelectors a modelled profile page may have an element for
ShownButtons == 3

\* what a profile page has for one of followingSelectors: no element, one
\* that is clicked and waited for, one whose screenshot, inspection or click
\* throws, one whose wait or screenshot after the click throws
ButtonKinds == {"absent", "clickable", "clickThrows", "settleThrows"}

NoButtons == [i \in 1..Len(followingSelectors) |-> "absent"]

ProfilePages ==
    { page \in [1..Len(followingSelectors) -> ButtonKinds] :
        \A i \in 1..Len(followingSelectors) : i > ShownButtons => page[i] = "absent" }

\* the height of the scenario "the page reports 100 every time": the lowest of Heights
ScenarioHeight == CHOOSE h \in Heights : \A g \in Heights : h <= g

---------------------------------------------------------------------------
(* State *)

VARIABLES
    prog,                 \* which scraper runs: "class" or "script"
    pc,                   \* the position of the run
    browserOpen,          \* a browser is launched and not closed
    dom,                  \* the elements the page shows now
    captchaResult,        \* what handleCaptcha returned: "none", "solved", "timeout"
    userCardSelector,     \* class: the container candidate in use
    followerSelector,     \* script: the container candidate in use (0: 'a[href*="@"]')
    following,            \* class: the accumulated records
    followers,            \* script: the accumulated records
    previousHeight,
    attempts,             \* class: rounds completed
    noNewFollowingCount,  \* class: the stagnation streak
    scrollAttempts,       \* script: rounds completed
    broke,                \* script: the loop was left by break ("Reached end of followers list")
    steady,               \* history: every height measured so far was ScenarioHeight
    stagnantRounds,       \* history: consecutive latest rounds that measured the height of the
                          \* round before, counted up to StagnationThreshold
    unchanged,            \* history: consecutive latest height comparisons that found no change
    settledRound,         \* history: the round of the latest scroll-and-settle (0: none yet)
    seenSettle,           \* history: settledRound when the latest extraction pass read the page
    domSeen,              \* history: dom is what the latest extraction pass read
    configured,           \* every required environment value is set
    result,               \* how the run stands: "none", "ok" (output step done), "failed" (an error was thrown)
    waited,               \* ms the login spent waiting at the CAPTCHA checkpoint
    passwordMissing,      \* history: the password field was looked for and not found
    submitClicked,        \* history: the login submit control was clicked
    authVerified,         \* the login control was looked for after login and found absent
    errorShots,           \* screenshots taken by an error handler
    output,               \* the records in the output file (None: no file written)
    writes,               \* how many times the output file was written
    endedBy,              \* how the pagination loop was left: "none", "endOfList", "budget", "error"
    buttons,              \* script: what the profile page has for each of followingSelectors
    clickQueried,         \* script: the followingSelectors queried, in order
    followingClicked,     \* script: a Following element was clicked
    probed,               \* the container candidates queried, in order
    incident,             \* what the latest resolution or extraction pass met: "none",
                          \* "noCandidate" (no container candidate has an element),
                          \* "elementThrew" (the extraction of one element threw)
    heldAtFailure,        \* history: the records held when the pagination failed
    popupsTried,          \* class: the popup descriptors handlePopups looked for
    lastHeight            \* history: the document height measured last

vars == <<prog, pc, browserOpen, dom, captchaResult, popupsTried, userCardSelector, followerSelector,
          following, followers, previousHeight, attempts, noNewFollowingCount,
          scrollAttempts, broke, steady, stagnantRounds, unchanged, settledRound, seenSettle,
          domSeen, configured, incident, result, waited, passwordMissing, submitClicked, authVerified,
          errorShots, output, writes, endedBy, heldAtFailure, buttons, clickQueried,
          followingClicked, probed, lastHeight>>

loopVars == <<previousHeight, attempts, noNewFollowingCount, scrollAttempts, broke, lastHeight>>

histVars == <<steady, stagnantRounds, unchanged, settledRound, seenSettle, domSeen>>

accVars == <<following, followers>>

selVars == <<userCardSelector, followerSelector, probed>>

\* what the login has done and found
loginVars == <<waited, passwordMissing, submitClicked, authVerified>>

\* what the run leaves behind
outVars == <<result, errorShots, output, writes, endedBy, heldAtFailure>>

\* the Following control of the profile page and the clicks tried on it
clickVars == <<buttons, clickQueried, followingClicked>>

\* everything but the position, the browser, the page and the loop
restVars == <<prog, configured, incident, captchaResult, popupsTried, loginVars, outVars, clickVars>>

Init ==
    /\ prog \in {"class", "script"}
    /\ pc = "start"
    /\ browserOpen = FALSE
    /\ dom = <<>>
    /\ captchaResult = "none"
    /\ userCardSelector = 1
    /\ followerSelector = 0
    /\ following = <<>>
    /\ followers = <<>>
    /\ previousHeight = 0
    /\ attempts = 0
    /\ noNewFollowingCount = 0
    /\ scrollAttempts = 0
    /\ broke = FALSE
    /\ steady = TRUE
    /\ stagnantRounds = 0
    /\ unchanged = 0
    /\ settledRound = 0
    /\ seenSettle = 0
    /\ domSeen = FALSE
    /\ configured \in BOOLEAN
    /\ result = "none"
    /\ waited = 0
    /\ passwordMissing = FALSE
    /\ submitClicked = FALSE
    /\ authVerified = FALSE
    /\ errorShots = 0
    /\ output = None
    /\ writes = 0
    /\ endedBy = "none"
    /\ buttons = NoButtons
    /\ clickQueried = <<>>
    /\ followingClicked = FALSE
    /\ probed = <<>>
    /\ incident = "none"
    /\ heldAtFailure = <<>>
    /\ popupsTried = <<>>
    /\ lastHeight = 0

UpTo(n, cap) == IF n < cap THEN n ELSE cap

\* the locals of the pagination loop (and their history) go when it is left
DropLoop ==
    /\ previousHeight' = 0
    /\ lastHeight' = 0
    /\ attempts' = 0
    /\ noNewFollowingCount' = 0
    /\ scrollAttempts' = 0
    /\ broke' = FALSE
    /\ steady' = TRUE
    /\ stagnantRounds' = 0
    /\ unchanged' = 0
    /\ settledRound' = 0
    /\ seenSettle' = 0
    /\ domSeen' = FALSE

\* the locals of the scraping function go when it is left by an error
DropLocals ==
    /\ following' = <<>>
    /\ followers' = <<>>
    /\ DropLoop

\* a step that only moves the run to position q
Goto(q) ==
    /\ pc' = q
    /\ UNCHANGED <<browserOpen, dom, selVars, accVars, loopVars, histVars, restVars>>

\* an error is thrown and the run goes to position q
Throw(q) ==
    /\ pc' = q
    /\ result' = "failed"

---------------------------------------------------------------------------
(* Start of a run, login and navigation *)

\* class, main: the presence check of the environment, before the try and
\* before any browser
ClassEnvCheck ==
    /\ prog = "class" /\ pc = "start"
    /\ IF configured THEN pc' = "init" /\ UNCHANGED result ELSE Throw("ended")
    /\ UNCHANGED <<prog, configured, incident, captchaResult, popupsTried, loginVars, errorShots, output, writes,
                   endedBy, heldAtFailure, clickVars, browserOpen, dom, selVars, accVars, loopVars, histVars>>

\* class: scraper.init() inside main's try; script: puppeteer.launch before the try
Launch ==
    /\ pc = IF prog = "class" THEN "init" ELSE "start"
    /\ \E launched \in BOOLEAN :
         /\ browserOpen' = launched
         /\ IF launched
            THEN pc' = (IF prog = "class" THEN "fill" ELSE "open") /\ UNCHANGED result
            ELSE Throw(IF prog = "class" THEN "closing" ELSE "ended")
    /\ UNCHANGED <<prog, configured, incident, captchaResult, popupsTried, loginVars, errorShots, output, writes,
                   endedBy, heldAtFailure, clickVars, dom, selVars, accVars, loopVars, histVars>>

\* a step that goes on to position q, or throws to position handler
Step(threw, q, handler) ==
    /\ IF threw THEN Throw(handler) ELSE pc' = q /\ UNCHANGED result
    /\ UNCHANGED <<prog, configured, incident, captchaResult, popupsTried, loginVars, errorShots, output, writes,
                   endedBy, heldAtFailure, clickVars, browserOpen, dom, selVars, accVars, loopVars, histVars>>

\* mutant: the login form is submitted whatever fields were found
FilledAnyway(userField, passwordField) == TRUE

\* the typing of the credentials gets through when both fields are there
Filled(userField, passwordField) == userField /\ passwordField

\* login(): open the login page, choose the email form, type username and
\* password; an error makes login() return false and main throw
ClassLoginFill ==
    /\ prog = "class" /\ pc = "fill"
    /\ \E userField \in BOOLEAN, passwordField \in BOOLEAN :
         /\ passwordMissing' = (userField /\ ~passwordField)
         /\ IF Filled(userField, passwordField)
            THEN pc' = "submit" /\ UNCHANGED result
            ELSE Throw("closing")
    /\ UNCHANGED <<prog, configured, incident, captchaResult, popupsTried, waited, submitClicked, authVerified,
                   errorShots, output, writes, endedBy, heldAtFailure, clickVars, browserOpen, dom, selVars,
                   accVars, loopVars, histVars>>

\* login(): click the login button and wait for the navigation
ClassLoginSubmit ==
    /\ prog = "class" /\ pc = "submit"
    /\ \E outcome \in {"noButton", "navigationTimeout", "settled"} :
         /\ submitClicked' = (outcome # "noButton")
         /\ IF outcome = "settled"
            THEN pc' = "captchaCheck" /\ UNCHANGED result
            ELSE Throw("closing")
    /\ UNCHANGED <<prog, configured, incident, captchaResult, popupsTried, waited, passwordMissing, authVerified,
                   errorShots, output, writes, endedBy, heldAtFailure, clickVars, browserOpen, dom, selVars,
                   accVars, loopVars, histVars>>

\* login(): if (await this.page.$('.secsdk-captcha-drag-icon'))
ClassCaptchaCheck ==
    /\ prog = "class" /\ pc = "captchaCheck"
    /\ \E outcome \in {"marker", "clear", "threw"} :
         Step(outcome = "threw", IF outcome = "marker" THEN "captcha" ELSE "popups", "closing")

\* what handleCaptcha returns when the marker stays for ms milliseconds
CaptchaOutcome(ms) == IF ms < CaptchaTimeoutMs THEN "solved" ELSE "timeout"

\* how long waitForFunction waits when the marker stays for ms milliseconds
CaptchaWait(ms) == IF ms < CaptchaTimeoutMs THEN ms ELSE CaptchaTimeoutMs

\* handleCaptcha(): wait for the marker to go, at most CaptchaTimeoutMs; login()
\* awaits it and goes on to handlePopups whatever it returns
ClassHandleCaptcha ==
    /\ prog = "class" /\ pc = "captcha"
    /\ \E ms \in MarkerDurations :
         /\ captchaResult' = CaptchaOutcome(ms)
         /\ waited' = CaptchaWait(ms)
    /\ pc' = "popups"
    /\ UNCHANGED <<prog, configured, incident, popupsTried, passwordMissing, submitClicked,
                   authVerified, outVars, clickVars, browserOpen, dom, selVars, accVars, loopVars, histVars>>

\* the descriptors handlePopups looks for when the first one is as given: one
\* try block holds both, so an error at the first (its waitForSelector timing
\* out, its click throwing) goes to the catch and ends the pass
PopupPass(first) ==
    IF first = "dismissed" THEN PopupDescriptors ELSE SubSeq(PopupDescriptors, 1, 1)

\* handlePopups(): every failure is caught inside
ClassHandlePopups ==
    /\ prog = "class" /\ pc = "popups"
    /\ \E first \in {"absent", "clickThrows", "dismissed"} : popupsTried' = PopupPass(first)
    /\ pc' = "verify"
    /\ UNCHANGED <<prog, configured, incident, captchaResult, loginVars, outVars, clickVars,
                   browserOpen, dom, selVars, accVars, loopVars, histVars>>

\* mutant: main goes on whatever login() returned
AfterLoginAlways(loggedIn) == "navigate"

\* where main goes with what login() computed from the login control
AfterLogin(loggedIn) == IF loggedIn THEN "navigate" ELSE "closing"

\* login(): loggedIn = no login button on the page; main throws when it is false
ClassLoginVerify ==
    /\ prog = "class" /\ pc = "verify"
    /\ \E outcome \in {"buttonGone", "buttonThere", "threw"} :
         /\ pc' = AfterLogin(outcome = "buttonGone")
         /\ authVerified' = (outcome = "buttonGone")
         /\ result' = IF pc' = "closing" THEN "failed" ELSE result
    /\ captchaResult' = "none"
    /\ popupsTried' = <<>>
    /\ waited' = 0
    /\ UNCHANGED <<prog, configured, incident, passwordMissing, submitClicked, errorShots, output,
                   writes, endedBy, heldAtFailure, clickVars, browserOpen, dom, selVars, accVars, loopVars,
                   histVars>>

\* navigateToProfile() and main's check of its result
ClassNavigate ==
    /\ prog = "class" /\ pc = "navigate"
    /\ \E navigated \in BOOLEAN : Step(~navigated, "openList", "closing")

\* the first candidate of cands that matches an element of d, 0 when none does
RECURSIVE FirstMatch(_, _)
FirstMatch(cands, d) ==
    IF cands = <<>> THEN 0
    ELSE IF Matching(d, Head(cands)) # <<>> THEN Head(cands)
    ELSE FirstMatch(Tail(cands), d)

RECURSIVE Probe(_, _)
\* the candidates queried one after the other until one has an element
Probe(cands, d) ==
    IF cands = <<>> THEN <<>>
    ELSE IF Matching(d, Head(cands)) # <<>> THEN <<Head(cands)>>
    ELSE <<Head(cands)>> \o Probe(Tail(cands), d)

\* the pagination loop cannot go on: scrapeFollowing catches the error and
\* returns [], scrapeFollowers passes it to its catch
LoopFails ==
    /\ IF prog = "class" THEN pc' = "save" /\ UNCHANGED result ELSE Throw("catch")
    /\ heldAtFailure' = (IF prog = "class" THEN following ELSE followers)
    /\ DropLocals
    /\ endedBy' = "error"

\* scrapeFollowing(): open the following page and wait for a user card; when
\* neither candidate shows up the error is caught and [] is returned
ClassOpenList ==
    /\ prog = "class" /\ pc = "openList"
    /\ \E d \in Doms, threw \in BOOLEAN :
         LET k == FirstMatch(ClassCandidates, d)
         IN  /\ dom' = d
             /\ incident' = IF ~threw /\ k = 0 THEN "noCandidate" ELSE "none"
             /\ IF threw \/ k = 0
                THEN /\ LoopFails
                     /\ UNCHANGED <<userCardSelector, probed>>
                ELSE /\ pc' = "harvest"
                     /\ userCardSelector' = k
                     /\ probed' = Probe(ClassCandidates, d)
                     /\ UNCHANGED <<result, endedBy, heldAtFailure, accVars, loopVars, histVars>>
    /\ UNCHANGED <<prog, configured, captchaResult, popupsTried, loginVars, errorShots, output, writes,
                   clickVars, browserOpen, followerSelector>>

\* script: browser.newPage() and the login page
ScriptOpen ==
    /\ prog = "script" /\ pc = "open"
    /\ \E threw \in BOOLEAN : Step(threw, "envCheck", "catch")

\* script: the presence check of the environment, after the login page is open
ScriptEnvCheck ==
    /\ prog = "script" /\ pc = "envCheck"
    /\ Step(~configured, "login", "catch")

\* login(page): type the email and the password, click submit, take the
\* CAPTCHA screenshot
ScriptLogin ==
    /\ prog = "script" /\ pc = "login"
    /\ \E userField \in BOOLEAN, passwordField \in BOOLEAN,
          outcome \in {"noButton", "screenshotThrew", "done"} :
         /\ passwordMissing' = (userField /\ ~passwordField)
         /\ submitClicked' = (Filled(userField, passwordField) /\ outcome # "noButton")
         /\ IF Filled(userField, passwordField) /\ outcome = "done"
            THEN pc' = "waitInput" /\ UNCHANGED result
            ELSE Throw("catch")
    /\ UNCHANGED <<prog, configured, incident, captchaResult, popupsTried, waited, authVerified, errorShots, output,
                   writes, endedBy, heldAtFailure, clickVars, browserOpen, dom, selVars, accVars, loopVars,
                   histVars>>

\* how long waitForUserInput waits when Enter comes after ms milliseconds
InputWait(ms) == ms

\* login(page): waitForUserInput resolves when the operator presses Enter
ScriptWaitForUserInput ==
    /\ prog = "script" /\ pc = "waitInput"
    /\ \E ms \in MarkerDurations : waited' = InputWait(ms)
    /\ pc' = "postCaptcha"
    /\ UNCHANGED <<prog, configured, incident, captchaResult, popupsTried, passwordMissing, submitClicked,
                   authVerified, outVars, clickVars, browserOpen, dom, selVars, accVars,
                   loopVars, histVars>>

\* login(page): wait 5 s, take the post-CAPTCHA screenshot, return
ScriptPostCaptcha ==
    /\ prog = "script" /\ pc = "postCaptcha"
    /\ \E threw \in BOOLEAN :
         IF threw THEN Throw("catch") ELSE pc' = "profile" /\ UNCHANGED result
    /\ waited' = 0
    /\ UNCHANGED <<prog, configured, incident, captchaResult, popupsTried, passwordMissing, submitClicked,
                   authVerified, errorShots, output, writes, endedBy, heldAtFailure, clickVars, browserOpen,
                   dom, selVars, accVars, loopVars, histVars>>

\* script: open the target's profile page, wait, take a screenshot
ScriptProfile ==
    /\ prog = "script" /\ pc = "profile"
    /\ \E page \in ProfilePages, threw \in BOOLEAN :
         IF threw
         THEN Throw("catch") /\ UNCHANGED buttons
         ELSE pc' = "openFollowing" /\ buttons' = page /\ UNCHANGED result
    /\ UNCHANGED <<prog, configured, incident, captchaResult, popupsTried, loginVars, errorShots, output, writes,
                   endedBy, heldAtFailure, clickQueried, followingClicked, browserOpen, dom, selVars, accVars,
                   loopVars, histVars>>

\* mutant: every selector is queried, whatever was clicked before
ClickLoopAll(cands, page) ==
    [queried |-> cands,
     clicked |-> \E i \in 1..Len(cands) : page[cands[i]] \in {"clickable", "settleThrows"}]

RECURSIVE ClickLoop(_, _)
\* for (const selector of followingSelectors): query the selector; click its
\* element and break; an error on the way is caught and the next one is tried
ClickLoop(cands, page) ==
    IF cands = <<>> THEN [queried |-> <<>>, clicked |-> FALSE]
    ELSE LET k    == Head(cands)
             rest == ClickLoop(Tail(cands), page)
         IN  CASE page[k] = "clickable"    -> [queried |-> <<k>>, clicked |-> TRUE]
               [] page[k] = "settleThrows" -> [queried |-> <<k>> \o rest.queried, clicked |-> TRUE]
               [] OTHER -> [queried |-> <<k>> \o rest.queried, clicked |-> rest.clicked]

\* script: get to the following list by click, by the in-page fallbacks or by
\* URL, then wait for it and take a screenshot
ScriptOpenFollowing ==
    /\ prog = "script" /\ pc = "openFollowing"
    /\ \E d \in Doms, threw \in BOOLEAN :
         LET loop == ClickLoop(followingSelectors, buttons)
         IN  /\ clickQueried' = loop.queried
             /\ followingClicked' = loop.clicked
             /\ dom' = d
             /\ IF threw THEN Throw("catch") ELSE pc' = "resolve" /\ UNCHANGED result
    /\ UNCHANGED <<prog, configured, incident, captchaResult, popupsTried, loginVars, errorShots, output, writes,
                   endedBy, heldAtFailure, buttons, browserOpen, selVars, accVars, loopVars, histVars>>

\* script: the first of possibleSelectors the page has an element for, else
\* the generic a[href*="@"]
ScriptResolve ==
    /\ prog = "script" /\ pc = "resolve"
    /\ \E threw \in BOOLEAN :
         IF threw
         THEN Throw("catch") /\ UNCHANGED <<followerSelector, probed, incident>>
         ELSE /\ pc' = "harvest"
              /\ followerSelector' = FirstMatch(possibleSelectors, dom)
              /\ probed' = Probe(possibleSelectors, dom)
              /\ incident' = IF followerSelector' = 0 THEN "noCandidate" ELSE "none"
              /\ UNCHANGED result
    /\ buttons' = NoButtons
    /\ clickQueried' = <<>>
    /\ followingClicked' = FALSE
    /\ UNCHANGED <<prog, configured, captchaResult, popupsTried, loginVars, errorShots, output, writes,
                   endedBy, heldAtFailure, browserOpen, dom, userCardSelector, accVars, loopVars, histVars>>

\* the live page renders its list anew (lazy loading after a scroll, or the
\* virtualised list reshuffling); the scraper sees it at its next read
PageRender ==
    /\ pc = "harvest"
    /\ \E d \in Doms \ {dom} : dom' = d
    /\ domSeen' = FALSE
    /\ UNCHANGED <<pc, browserOpen, selVars, accVars, loopVars, steady, stagnantRounds,
                   unchanged, settledRound, seenSettle, restVars>>

---------------------------------------------------------------------------
(* The pagination loop: class scraper *)

\* one round's extraction: read the user cards, add the new ones; an error
\* is caught by scrapeFollowing, which returns [].  All cards are mapped in one
\* page.evaluate: when the callback throws for card number bad (its first
\* descendant link has no string href), the whole call throws
ClassHarvest ==
    /\ prog = "class" /\ pc = "harvest"
    /\ \E threw \in BOOLEAN, bad \in 0..Len(Matching(dom, userCardSelector)) :
         IF threw \/ bad # 0
         THEN /\ LoopFails
              /\ incident' = IF threw THEN "none" ELSE "elementThrew"
         ELSE /\ following' = ClassMerge(following, Matching(dom, userCardSelector))
              /\ incident' = "none"
              /\ seenSettle' = settledRound
              /\ domSeen' = TRUE
              /\ pc' = "scroll"
              /\ UNCHANGED <<followers, loopVars, steady, stagnantRounds, unchanged,
                             settledRound, result, endedBy, heldAtFailure>>
    /\ UNCHANGED <<prog, configured, captchaResult, popupsTried, loginVars, errorShots, output,
                   writes, clickVars, browserOpen, dom, selVars>>

\* mutant: the streak is never reset
ClassStreakNoReset(currentHeight, prev, n) == IF currentHeight = prev THEN n + 1 ELSE n

\* mutant: the streak is reset only when the page grew
ClassStreakGrowOnly(currentHeight, prev, n) ==
    IF currentHeight = prev THEN n + 1 ELSE IF currentHeight > prev THEN 0 ELSE n

\* mutant: an unchanged height counts twice
ClassStreakDouble(currentHeight, prev, n) == IF currentHeight = prev THEN n + 2 ELSE 0

\* if (currentHeight === previousHeight) noNewFollowingCount++ else noNewFollowingCount = 0
ClassStreak(currentHeight, prev, n) == IF currentHeight = prev THEN n + 1 ELSE 0

\* mutant: <= for < in the test of the streak
ClassContinueLate(a, n) == a < MaxAttempts /\ n <= StagnationThreshold

\* the while condition
ClassContinue(a, n) == a < MaxAttempts /\ n < StagnationThreshold

\* the rest of the round: scroll to the bottom, wait, measure, count, and
\* test the while condition
ClassScroll ==
    /\ prog = "class" /\ pc = "scroll"
    /\ \E currentHeight \in Heights, threw \in BOOLEAN :
         IF threw
         THEN LoopFails /\ incident' = "none"
         ELSE /\ incident' = "none"
              /\ noNewFollowingCount' = ClassStreak(currentHeight, previousHeight, noNewFollowingCount)
              /\ previousHeight' = currentHeight
              /\ lastHeight' = currentHeight
              /\ attempts' = attempts + 1
              /\ pc' = IF ClassContinue(attempts', noNewFollowingCount') THEN "harvest" ELSE "exited"
              /\ steady' = (steady /\ currentHeight = ScenarioHeight)
              /\ stagnantRounds' = IF attempts > 0 /\ currentHeight = previousHeight
                                   THEN UpTo(stagnantRounds + 1, StagnationThreshold) ELSE 0
              /\ unchanged' = IF currentHeight = previousHeight THEN unchanged + 1 ELSE 0
              /\ settledRound' = attempts + 1
              /\ UNCHANGED <<scrollAttempts, broke, seenSettle, domSeen, accVars, result,
                             endedBy, heldAtFailure>>
    /\ UNCHANGED <<prog, configured, captchaResult, popupsTried, loginVars, errorShots, output,
                   writes, clickVars, browserOpen, dom, selVars>>

\* how the class loop was left, from the counters that ended it
ClassEndedBy(a, n) == IF a >= MaxAttempts THEN "budget" ELSE "endOfList"

\* return following: main gets the accumulated records
ClassReturn ==
    /\ prog = "class" /\ pc = "exited"
    /\ pc' = "save"
    /\ endedBy' = ClassEndedBy(attempts, noNewFollowingCount)
    /\ DropLoop
    /\ UNCHANGED <<accVars, result, heldAtFailure>>
    /\ UNCHANGED <<prog, configured, incident, captchaResult, popupsTried, loginVars, errorShots, output, writes,
                   clickVars, browserOpen, dom, selVars>>

\* mutant: the last record is left out of the file
ClassOutputShort(records) ==
    Some(IF records = <<>> THEN records ELSE SubSeq(records, 1, Len(records) - 1))

\* fs.writeFileSync(outputPath, JSON.stringify(following, null, 2)): the
\* records the file holds
ClassOutput(records) == Some(records)

\* main: write following.json with what scrapeFollowing returned
ClassSave ==
    /\ prog = "class" /\ pc = "save"
    /\ \E threw \in BOOLEAN :
         IF threw
         THEN Throw("closing") /\ UNCHANGED <<output, writes>>
         ELSE /\ output' = ClassOutput(following)
              /\ writes' = writes + 1
              /\ result' = "ok"
              /\ pc' = "closing"
    /\ following' = <<>>
    /\ UNCHANGED <<prog, configured, incident, captchaResult, popupsTried, loginVars, errorShots, endedBy, heldAtFailure, clickVars,
                   browserOpen, dom, selVars, followers, loopVars, histVars>>

---------------------------------------------------------------------------
(* The pagination loop: script scraper *)

\* one round's extraction; an error of page.$$ leaves scrapeFollowers, an
\* error at element number bad (every operation on it throws) is caught in
\* the loop body, which goes on with the next element
ScriptHarvest ==
    /\ prog = "script" /\ pc = "harvest"
    /\ \E threw \in BOOLEAN, bad \in 0..Len(QueryAll(dom, followerSelector)) :
         IF threw
         THEN LoopFails /\ incident' = "none"
         ELSE /\ followers' =
                    IF bad = 0
                    THEN ScriptHarvestResult(followers, dom, followerSelector, scrollAttempts)
                    ELSE ScriptHarvestSkipping(followers, dom, followerSelector,
                                               scrollAttempts, bad)
              /\ incident' = IF bad = 0 THEN "none" ELSE "elementThrew"
              /\ seenSettle' = settledRound
              /\ domSeen' = TRUE
              /\ pc' = "scroll"
              /\ UNCHANGED <<following, loopVars, steady, stagnantRounds, unchanged,
                             settledRound, result, endedBy, heldAtFailure>>
    /\ UNCHANGED <<prog, configured, captchaResult, popupsTried, loginVars, errorShots, output,
                   writes, clickVars, browserOpen, dom, selVars>>

\* mutant: <= for < in the test of the round counter
ScriptContinueLate(a) == a <= maxScrollAttempts

\* the while condition
ScriptContinue(a) == a < maxScrollAttempts

\* if (newHeight === previousHeight): the round goes to its second measurement
ScriptStalled(newHeight, prev) == newHeight = prev

\* scroll to the bottom, wait, measure newHeight; a changed height ends the
\* round: previousHeight = newHeight, scrollAttempts++, the while condition
ScriptScroll ==
    /\ prog = "script" /\ pc = "scroll"
    /\ \E newHeight \in Heights, threw \in BOOLEAN :
         IF threw
         THEN LoopFails /\ incident' = "none"
         ELSE /\ incident' = "none"
              /\ lastHeight' = newHeight
              /\ steady' = (steady /\ newHeight = ScenarioHeight)
              /\ settledRound' = scrollAttempts + 1
              /\ stagnantRounds' = IF scrollAttempts > 0 /\ newHeight = previousHeight
                                   THEN UpTo(stagnantRounds + 1, StagnationThreshold) ELSE 0
              /\ unchanged' = IF newHeight = previousHeight THEN unchanged + 1 ELSE 0
              /\ IF ScriptStalled(newHeight, previousHeight)
                 THEN /\ pc' = "retry"
                      /\ UNCHANGED <<previousHeight, scrollAttempts>>
                 ELSE /\ previousHeight' = newHeight
                      /\ scrollAttempts' = scrollAttempts + 1
                      /\ pc' = IF ScriptContinue(scrollAttempts') THEN "harvest" ELSE "exited"
              /\ UNCHANGED <<attempts, noNewFollowingCount, broke, seenSettle, domSeen,
                             accVars, result, endedBy, heldAtFailure>>
    /\ UNCHANGED <<prog, configured, captchaResult, popupsTried, loginVars, errorShots, output,
                   writes, clickVars, browserOpen, dom, selVars>>

\* if (finalHeight === newHeight) break
ScriptBreak(finalHeight, newHeight) == finalHeight = newHeight

\* the second try of a stalled round: wait, scroll, wait, measure finalHeight;
\* the same height again leaves the loop, another one ends the round with
\* previousHeight = newHeight (which previousHeight already equals)
ScriptRetry ==
    /\ prog = "script" /\ pc = "retry"
    /\ \E finalHeight \in Heights, threw \in BOOLEAN :
         IF threw
         THEN LoopFails /\ incident' = "none"
         ELSE /\ incident' = "none"
              /\ lastHeight' = finalHeight
              /\ steady' = (steady /\ finalHeight = ScenarioHeight)
              /\ unchanged' = IF finalHeight = previousHeight THEN unchanged + 1 ELSE 0
              /\ IF ScriptBreak(finalHeight, previousHeight)
                 THEN /\ broke' = TRUE
                      /\ pc' = "exited"
                      /\ UNCHANGED scrollAttempts
                 ELSE /\ scrollAttempts' = scrollAttempts + 1
                      /\ pc' = IF ScriptContinue(scrollAttempts') THEN "harvest" ELSE "exited"
                      /\ UNCHANGED broke
              /\ UNCHANGED <<previousHeight, attempts, noNewFollowingCount, seenSettle,
                             settledRound, stagnantRounds, domSeen, accVars, result, endedBy, heldAtFailure>>
    /\ UNCHANGED <<prog, configured, captchaResult, popupsTried, loginVars, errorShots, output,
                   writes, clickVars, browserOpen, dom, selVars>>

\* how the script loop was left
ScriptEndedBy(byBreak) == IF byBreak THEN "endOfList" ELSE "budget"

\* if (followers.length === 0) a screenshot, else saveToFile(followers): the
\* records the file holds, None when no file is written
ScriptOutput(records) == IF records = <<>> THEN None ELSE Some(records)

\* after the loop: save the followers, or take a screenshot when there are none
ScriptSave ==
    /\ prog = "script" /\ pc = "exited"
    /\ \E threw \in BOOLEAN :
         IF threw
         THEN Throw("catch") /\ UNCHANGED <<output, writes>>
         ELSE /\ output' = ScriptOutput(followers)
              /\ writes' = IF followers = <<>> THEN writes ELSE writes + 1
              /\ result' = "ok"
              /\ pc' = "closing"
    /\ endedBy' = ScriptEndedBy(broke)
    /\ DropLocals
    /\ UNCHANGED heldAtFailure
    /\ UNCHANGED <<prog, configured, incident, captchaResult, popupsTried, loginVars, errorShots, clickVars,
                   browserOpen, dom, selVars>>

\* catch: log, try an error screenshot, rethrow
ScriptCatch ==
    /\ prog = "script" /\ pc = "catch"
    /\ \E shot \in BOOLEAN : errorShots' = errorShots + (IF shot THEN 1 ELSE 0)
    /\ pc' = "closing"
    /\ UNCHANGED <<prog, configured, incident, captchaResult, popupsTried, loginVars, result, output, writes,
                   endedBy, heldAtFailure, clickVars, browserOpen, dom, selVars, accVars, loopVars, histVars>>

\* mutant: the browser is left as it is
StillOpen(open) == open

\* browser.close(): no browser is open afterwards
Closed(open) == FALSE

\* class: scraper.close() in main's finally; script: browser.close() in finally
Close ==
    /\ pc = "closing"
    /\ browserOpen' = Closed(browserOpen)
    /\ dom' = <<>>
    /\ pc' = "ended"
    /\ UNCHANGED <<selVars, accVars, loopVars, histVars, restVars>>

Next ==
    \/ ClassEnvCheck
    \/ Launch
    \/ ClassLoginFill
    \/ ClassLoginSubmit
    \/ ClassCaptchaCheck
    \/ ClassHandleCaptcha
    \/ ClassHandlePopups
    \/ ClassLoginVerify
    \/ ClassNavigate
    \/ ClassOpenList
    \/ ClassHarvest
    \/ ClassScroll
    \/ ClassReturn
    \/ ClassSave
    \/ ScriptOpen
    \/ ScriptEnvCheck
    \/ ScriptLogin
    \/ ScriptWaitForUserInput
    \/ ScriptPostCaptcha
    \/ ScriptProfile
    \/ ScriptOpenFollowing
    \/ ScriptResolve
    \/ ScriptHarvest
    \/ ScriptScroll
    \/ ScriptRetry
    \/ ScriptSave
    \/ ScriptCatch
    \/ Close
    \/ PageRender

Spec == Init /\ [][Next]_vars

---------------------------------------------------------------------------
(* What the properties speak of *)

\* the accumulator of the scraper that runs
Acc == IF prog = "class" THEN following ELSE followers

\* the positions of the pagination loop, and the one right after it
LoopPcs == {"harvest", "scroll", "retry"}

InRun == pc \in LoopPcs \cup {"exited"}

\* the rounds begun so far: the completed ones, and the one in progress or left by break
RoundsStarted ==
    IF prog = "class"
    THEN attempts + (IF pc \in LoopPcs THEN 1 ELSE 0)
    ELSE scrollAttempts + (IF pc \in LoopPcs \/ (pc = "exited" /\ broke) THEN 1 ELSE 0)

\* the loop ended because the page stopped growing
EndOfList ==
    /\ pc = "exited"
    /\ IF prog = "class" THEN noNewFollowingCount >= StagnationThreshold ELSE broke

\* the elements the extraction pass of the current round reads, and their identity keys
Candidates ==
    IF prog = "class" THEN Matching(dom, userCardSelector) ELSE QueryAll(dom, followerSelector)

CandidateRecord(c) == IF prog = "class" THEN ClassRecord(c) ELSE ScriptRecord(c)

\* the stored record of identity key u
StoredFor(acc, u) == CHOOSE r \in { acc[i] : i \in 1..Len(acc) } : r.username = u

---------------------------------------------------------------------------
(* C1: in every reachable state the accumulated list holds no two records
   with the same username, in both scrapers *)
C1_NoDuplicateUsernames ==
    \A i, j \in 1..Len(Acc) : i # j => Acc[i].username # Acc[j].username

\* an extraction pass has just read two elements with the same username
C1_Witness ==
    /\ pc = "scroll"
    /\ \E i, j \in 1..Len(Candidates) :
         /\ i # j
         /\ CandidateRecord(Candidates[i]).username = CandidateRecord(Candidates[j]).username
         /\ CandidateRecord(Candidates[i]).username \in Usernames(Acc)

(* C2: first-seen wins: while the loop runs, no step changes any field of
   the record stored for an identity key *)
C2_FirstSeenWins ==
    [][InRun' => \A u \in Usernames(Acc) :
                    /\ u \in Usernames(Acc')
                    /\ StoredFor(Acc', u) = StoredFor(Acc, u)]_vars

\* an extraction pass has just read an element whose username is stored with
\* other fields than the element gives
C2_Witness ==
    /\ pc = "scroll"
    /\ \E i \in 1..Len(Candidates) :
         LET rec == CandidateRecord(Candidates[i])
         IN  /\ rec.username \in Usernames(Acc)
             /\ StoredFor(Acc, rec.username) # rec

(* C3: an extraction pass over the elements the pass before it read leaves
   the accumulator as that pass left it *)
C3_ExtractionIdempotent ==
    [][(pc = "harvest" /\ pc' = "scroll" /\ domSeen) => Acc' = Acc]_vars

(* C4: with the height measured as ScenarioHeight in rounds 1, 2 and 3 the
   loop ends as end-of-list after round 3: no 4th round, no earlier stop *)
C4_ThreeEqualHeightsEnd ==
    (InRun /\ steady) =>
        /\ RoundsStarted <= 3
        /\ (pc = "exited" => RoundsStarted = 3 /\ EndOfList)

(* C4, amended: with every measurement ScenarioHeight, the class scraper ends
   as end-of-list after round 4 (round 1 is compared with the initial
   previousHeight 0), and the script scraper in round 2, whose measurement and
   second measurement both repeat the height of round 1 *)
C4_SteadyHeightsEnd ==
    (InRun /\ steady) =>
        LET last == IF prog = "class" THEN StagnationThreshold + 1 ELSE 2
        IN  /\ RoundsStarted <= last
            /\ (pc = "exited" => RoundsStarted = last /\ EndOfList)

\* the class scraper has left the loop after measuring ScenarioHeight every round
C4_Witness == prog = "class" /\ pc = "exited" /\ steady /\ attempts > 0

(* C5: the loop ends as end-of-list only after StagnationThreshold consecutive
   rounds that each measured the height of the round before *)
C5_ThreeStagnantRounds == EndOfList => stagnantRounds >= StagnationThreshold

(* C5, amended: the loop never ends as end-of-list on one unchanged
   measurement: the class scraper does so only after StagnationThreshold
   consecutive rounds whose height equals previousHeight, the script scraper
   only after a round's measurement and its second measurement both found the
   height unchanged *)
C5_ConsecutiveUnchanged ==
    EndOfList => unchanged >= (IF prog = "class" THEN StagnationThreshold ELSE 2)

\* the script scraper has left the loop by break
C5_Witness == prog = "script" /\ EndOfList

\* the most rounds the loop may take
RoundLimit == IF prog = "class" THEN MaxAttempts + StagnationThreshold ELSE maxScrollAttempts

\* a measure every step of the loop increases: rounds first, position second
LoopRank ==
    3 * (IF prog = "class" THEN attempts ELSE scrollAttempts)
    + (CASE pc = "scroll" -> 1 [] pc = "retry" -> 2 [] OTHER -> 0)

(* C6: whatever heights the page reports, the loop takes at most RoundLimit
   rounds and never runs forever: every step the scraper takes in the loop
   leaves it or increases LoopRank, which RoundLimit bounds *)
C6_LoopHalts ==
    [][/\ InRun' => RoundsStarted' <= RoundLimit'
       /\ (pc \in LoopPcs /\ pc' \in LoopPcs /\ pc' # pc) =>
             (LoopRank' > LoopRank /\ LoopRank' < 3 * RoundLimit')]_vars

\* the loop has used up its round budget
C6_Witness ==
    /\ pc = "exited"
    /\ IF prog = "class" THEN attempts = MaxAttempts ELSE scrollAttempts = maxScrollAttempts

(* C7: the extraction pass of a round reads the document that round's
   scroll-and-settle produced, and the document of the last scroll before the
   loop ends has been read by an extraction pass *)
C7_ExtractionSeesOwnRound ==
    /\ pc = "scroll" => seenSettle = RoundsStarted
    /\ pc = "exited" => seenSettle = settledRound

(* C8: while the loop runs the number of accumulated records never goes down *)
C8_SizeNonDecreasing == [][InRun' => Len(Acc') >= Len(Acc)]_vars

\* records of more than one pass are held
C8_Witness == pc = "harvest" /\ RoundsStarted >= 3 /\ Len(Acc) >= 2

\* a round of the loop ends and the next begins, or the loop is left
RoundEnds == pc \in {"scroll", "retry"} /\ pc' \in {"harvest", "exited"}

(* C9: when the streak is 0 after a round, the height recorded for the round
   is not below the one recorded for the round before *)
C9_ResetOnlyOnIncrease ==
    [][(RoundEnds /\ unchanged' = 0) => previousHeight' >= previousHeight]_vars

(* C9, amended: the streak is reset on any change of height, up or down: in
   the class scraper it is 0 after a round exactly when the round's height
   differs from the one before; the script scraper goes straight on to the
   next round exactly when the measured height differs from previousHeight *)
C9_ResetOnAnyChange ==
    [][/\ (prog = "class" /\ RoundEnds) =>
             (noNewFollowingCount' = 0 <=> previousHeight' # previousHeight)
       /\ (prog = "script" /\ pc = "scroll" /\ pc' \in {"harvest", "exited"}) =>
             previousHeight' # previousHeight
       /\ (prog = "script" /\ pc = "scroll" /\ pc' = "retry") =>
             previousHeight' = previousHeight]_vars

\* after a round that measured less than the round before, the streak is 0
C9_Witness ==
    /\ prog = "class" /\ pc = "harvest" /\ attempts >= 2
    /\ noNewFollowingCount = 0 /\ \A h \in Heights : previousHeight <= h

(* C10: when the CAPTCHA marker outlasts the timeout, login reports failure
   and the run goes on to no profile navigation *)
C10_CaptchaTimeoutFails ==
    [][(pc = "verify" /\ captchaResult = "timeout") => pc' # "navigate"]_vars

(* C11: the login never waits at the CAPTCHA checkpoint for longer than
   CaptchaTimeoutMs: when the timeout is reached the wait is given up, whatever
   the one who solves the CAPTCHA does *)
C11_CheckpointWaitBounded == waited <= CaptchaTimeoutMs

(* C12: when the password field is looked for and not found, the run fails
   and the login submit control is not clicked in that run *)
C12_NoSubmitWithoutPassword ==
    passwordMissing =>
        /\ ~submitClicked
        /\ result = "failed"
        /\ pc \in {"closing", "catch", "ended"}

\* a run that did not find the password field has ended
C12_Witness == passwordMissing /\ pc = "ended"

(* C13: with a required configuration value missing no browser is ever open:
   the run fails at the presence check, before any browser is launched *)
C13_NoBrowserWithoutConfig == ~configured => ~browserOpen

(* C14: when a run has ended, on whatever path, no browser is open: a browser
   that was launched has been closed *)
C14_BrowserClosedAtEnd == pc = "ended" => ~browserOpen

\* a run that got as far as the submit click and then failed has ended
C14_Witness == pc = "ended" /\ submitClicked /\ result = "failed"

(* C15: when a run that failed is about to close its browser, exactly one
   screenshot has been taken by an error handler *)
C15_OneScreenshotOnAbort ==
    (pc = "closing" /\ result = "failed" /\ browserOpen) => errorShots = 1

\* the candidates before position i of cands
Before(cands, i) == { cands[j] : j \in 1..(i - 1) }

\* selector k and the queries q are what a search through cands in list order
\* gives that stops at the first candidate with an element in document d
StopsAtFirstMatch(cands, d, k, q) ==
    \/ \E i \in 1..Len(cands) :
         /\ Matching(d, cands[i]) # <<>>
         /\ \A c \in Before(cands, i) : Matching(d, c) = <<>>
         /\ k = cands[i]
         /\ q = SubSeq(cands, 1, i)
    \/ /\ \A i \in 1..Len(cands) : Matching(d, cands[i]) = <<>>
       /\ k = 0
       /\ q = cands

(* C16: the candidates are queried in list order and the search stops at the
   first one the page has an element for: none after it is queried *)
C16_FirstMatchEndsSearch ==
    [][/\ (pc = "openFollowing" /\ pc' = "resolve") =>
             \A i \in 1..Len(followingSelectors) :
                (/\ buttons'[followingSelectors[i]] # "absent"
                 /\ \A c \in Before(followingSelectors, i) : buttons'[c] = "absent")
                => clickQueried' = SubSeq(followingSelectors, 1, i)
       /\ (pc = "resolve" /\ pc' = "harvest") =>
             StopsAtFirstMatch(possibleSelectors, dom', followerSelector', probed')]_vars

(* C16, amended: the candidates are queried in list order.  The search for
   the container stops at the first candidate the page has an element for,
   and that one is used.  The search for the Following control stops at the
   first candidate whose element is found, clicked and waited for without an
   error: a candidate whose element is found but cannot be handled is passed
   over and the next ones are queried *)
C16_FirstUsableEndsSearch ==
    [][/\ (pc = "openFollowing" /\ pc' = "resolve") =>
             \/ \E i \in 1..Len(followingSelectors) :
                  /\ buttons'[followingSelectors[i]] = "clickable"
                  /\ \A c \in Before(followingSelectors, i) : buttons'[c] # "clickable"
                  /\ clickQueried' = SubSeq(followingSelectors, 1, i)
             \/ /\ \A i \in 1..Len(followingSelectors) :
                      buttons'[followingSelectors[i]] # "clickable"
                /\ clickQueried' = followingSelectors
       /\ (pc = "resolve" /\ pc' = "harvest") =>
             StopsAtFirstMatch(possibleSelectors, dom', followerSelector', probed')
       /\ (pc = "openList" /\ pc' = "harvest") =>
             StopsAtFirstMatch(ClassCandidates, dom', userCardSelector', probed')]_vars

\* of the first three Following candidates only the second has an element, it
\* was clicked, and the third was not queried
C16_Witness ==
    /\ pc = "resolve"
    /\ buttons[followingSelectors[1]] = "absent"
    /\ buttons[followingSelectors[2]] = "clickable"
    /\ buttons[followingSelectors[3]] = "absent"
    /\ clickQueried = SubSeq(followingSelectors, 1, 2)

(* C17: the scraper opens the target list and harvests it only after the
   login control was looked for and found absent *)
C17_HarvestOnlyVerified ==
    pc \in {"openList", "openFollowing", "resolve"} \cup LoopPcs => authVerified

\* the records the output file holds (none when there is no file)
WrittenRecords == IF output = None THEN <<>> ELSE output[1]

(* C18: a loop that ends because the round counter reached its maximum ends
   without an error, and when the output step that follows is done the output
   holds every accumulated record *)
C18_BudgetEndIsSuccess ==
    [][/\ (prog = "class" /\ pc = "exited" /\ attempts >= MaxAttempts) =>
             (pc' = "save" /\ result' = result /\ following' = following)
       /\ (prog = "class" /\ pc = "save" /\ endedBy = "budget" /\ result' = "ok") =>
             (pc' = "closing" /\ WrittenRecords' = following)
       /\ (prog = "script" /\ pc = "exited" /\ scrollAttempts >= maxScrollAttempts
             /\ result' = "ok") =>
             (pc' = "closing" /\ WrittenRecords' = followers)]_vars

\* a run whose loop used up its rounds has ended well with two records written
C18_Witness ==
    /\ pc = "ended" /\ endedBy = "budget" /\ result = "ok"
    /\ Len(WrittenRecords) >= 2

(* C19: a run whose loop ended by end-of-list or by the round budget, and
   that ended well, has written the output file exactly once *)
C19_OutputWrittenOnce ==
    (pc = "ended" /\ result = "ok" /\ endedBy \in {"endOfList", "budget"}) => writes = 1

(* C20: no record with an empty username is in the accumulator or in the
   output *)
C20_NoEmptyUsername ==
    /\ \A i \in 1..Len(Acc) : Acc[i].username # <<>>
    /\ \A i \in 1..Len(WrittenRecords) : WrittenRecords[i].username # <<>>

(* C21: the records held when a page operation of the pagination loop failed
   are in the output when the run has ended *)
C21_RecordsSurviveFailure ==
    pc = "ended" =>
        \A i \in 1..Len(heldAtFailure) :
            \E j \in 1..Len(WrittenRecords) : WrittenRecords[j] = heldAtFailure[i]

(* C22: an extraction pass in which the extraction of one element threw still
   ends as a pass: the loop goes on to the scroll and every record held before
   the pass is kept *)
C22_ElementFailureContained ==
    [][(pc = "harvest" /\ incident' = "elementThrew") =>
          /\ pc' = "scroll"
          /\ Len(Acc') >= Len(Acc)
          /\ \A i \in 1..Len(Acc) : Acc'[i] = Acc[i]]_vars

(* C23: when no container candidate has an element on the page, the
   resolution ends without an error and the scraper goes on to harvest by
   another strategy *)
C23_NoMatchIsHandled ==
    [][(pc \in {"openList", "resolve"} /\ incident' = "noCandidate") => pc' = "harvest"]_vars

(* C24: when the popup pass of the login is over, every known popup has been
   looked for, whatever became of the ones before it *)
C24_EveryPopupTried == pc = "verify" => popupsTried = PopupDescriptors

(* C25: when the CAPTCHA marker is gone before the timeout, login reports
   success *)
C25_SolvedMeansSuccess ==
    [][(pc = "verify" /\ captchaResult = "solved") => pc' = "navigate"]_vars

(* C25, amended: when the CAPTCHA marker is gone before the timeout,
   handleCaptcha ends as solved and login goes on to the popup pass and to the
   check of the login control: it reports success exactly when the login
   control is found absent, and the run fails otherwise *)
C25_SolvedThenVerified ==
    [][/\ (pc = "captcha" /\ waited' < CaptchaTimeoutMs) =>
             (captchaResult' = "solved" /\ pc' = "popups")
       /\ (pc = "verify" /\ captchaResult = "solved") =>
             /\ pc' = "navigate" <=> authVerified'
             /\ pc' # "navigate" => (pc' = "closing" /\ result' = "failed")]_vars

\* the CAPTCHA was solved in time and the login is about to check the login control
C25_Witness == pc = "verify" /\ captchaResult = "solved"

(* C26: a run whose scrape failed at a page operation writes no output file *)
C26_NoWriteAfterFailedScrape == endedBy = "error" => writes = 0

(* C27: at the start of every round of the script scraper previousHeight is
   the document height measured last *)
C27_PreviousHeightIsLatest ==
    (prog = "script" /\ pc = "harvest") => previousHeight = lastHeight

(* C28: in the class scraper's loop 0 <= noNewFollowingCount <=
   StagnationThreshold, 0 <= attempts <= MaxAttempts and noNewFollowingCount
   <= attempts, and when the loop is left attempts = MaxAttempts or
   noNewFollowingCount = StagnationThreshold *)
C28_ClassCounters ==
    (prog = "class" /\ InRun) =>
        /\ 0 <= noNewFollowingCount /\ noNewFollowingCount <= StagnationThreshold
        /\ 0 <= attempts /\ attempts <= MaxAttempts
        /\ noNewFollowingCount <= attempts
        /\ pc = "exited" =>
              (attempts = MaxAttempts \/ noNewFollowingCount = StagnationThreshold)

\* the class loop was left by the streak before the round budget was used up
C28_Witness ==
    /\ prog = "class" /\ pc = "exited"
    /\ noNewFollowingCount = StagnationThreshold /\ attempts < MaxAttempts

============================================================================
